---- MODULE Spec2Model ----
(***************************************************************************)
(* Model of app93.py: a Streamlit page that OCRs an uploaded PDF form,     *)
(* asks a chat-completion API to fill it, renders the result as a PDF and  *)
(* answers questions about it.                                             *)
(*                                                                         *)
(* Streamlit re-executes the whole script on every widget interaction.     *)
(* Each user interaction is therefore one action that runs the script      *)
(* top to bottom (Script) against st.session_state.                        *)
(*                                                                         *)
(* Session strings (OCR text, prompts, completions, questions) are         *)
(* sequences of non-empty chunks of characters: the empty string is <<>>,  *)
(* concatenation is \o and Python truthiness is "is not <<>>".             *)
(* In generate_pdf a string is a sequence of single characters.            *)
(***************************************************************************)
EXTENDS Integers, Sequences, FiniteSets, TLC

VARIABLES
    ocr_text,       \* st.session_state.ocr_text
    filled_text,    \* st.session_state.filled_text
    qa_history,     \* st.session_state.qa_history
    uploaded,       \* value of the st.file_uploader widget
    qbox,           \* value held by the st.text_input widget
    run,            \* what the most recent script run invoked
    asks,           \* number of questions the user has submitted
    errorReports,   \* st.error calls since the file uploader last changed
    pc,             \* generate_pdf: position in the function
    y,              \* generate_pdf: vertical cursor
    pageNo,         \* generate_pdf: number of c.showPage() calls so far
    nLines,         \* generate_pdf: lines of the input consumed so far
    line,           \* generate_pdf: the input line handled last
    drawn           \* generate_pdf: drawString calls made for that line

sessionVars == <<ocr_text, filled_text, qa_history, uploaded, qbox, run, asks, errorReports>>
pdfVars == <<pc, y, pageNo, nLines, line, drawn>>
vars == <<ocr_text, filled_text, qa_history, uploaded, qbox, run, asks, errorReports,
          pc, y, pageNo, nLines, line, drawn>>

(***************************************************************************)
(* Bounds                                                                  *)
(***************************************************************************)
MaxHistory == 2        \* longest qa_history explored
MaxErrorReports == 2   \* most error reports explored for one upload
MaxLines == 30         \* most input lines given to generate_pdf

(***************************************************************************)
(* Strings of the session                                                  *)
(***************************************************************************)
Truthy(s) == s # <<>>

IsPrefix(s, t) == Len(s) <= Len(t) /\ SubSeq(t, 1, Len(s)) = s

NoFile == "none"
Files == {"formA", "corrupt"}

\* The OCR result of each page image of an uploadable file.
Pages(f) ==
    CASE f = "formA" -> << <<"Name: N/A">>, <<"Date: ---">> >>
      [] OTHER -> << >>

\* convert_from_bytes raises on a corrupt or unsupported PDF.
ConvertFails(f) == f = "corrupt"

RECURSIVE OcrLoop(_, _)
OcrLoop(images, text) ==
    IF images = << >> THEN text
    ELSE OcrLoop(Tail(images), text \o Head(images) \o <<"\n">>)

pdf_to_text(pdf_file) ==
    IF ConvertFails(pdf_file)
    THEN [text |-> << >>, errors |-> 1]
    ELSE [text |-> OcrLoop(Pages(pdf_file), << >>), errors |-> 0]

(***************************************************************************)
(* The chat-completion endpoint.  What the HTTP call does is not decided   *)
(* by the program: every outcome is possible on every call.                *)
(***************************************************************************)
HttpOutcomes == {"ok", "empty", "http500", "refused", "malformed"}

ApiErrorMarker == "[X] Groq API error: "
RequestFailedMarker == "[X] Request failed: "
Body500 == <<"{error: internal}">>

\* requests.post: either raises, or returns a response.
\* hasChoices says whether response.json()['choices'][0]['message']['content'] exists.
requests_post(prompt, outcome) ==
    CASE outcome = "refused" ->
           [raised |-> TRUE, exc |-> <<"Connection refused">>]
      [] outcome = "http500" ->
           [raised |-> FALSE, status_code |-> 500, text |-> Body500,
            hasChoices |-> FALSE, content |-> << >>]
      [] outcome = "malformed" ->
           [raised |-> FALSE, status_code |-> 200, text |-> <<"{}">>,
            hasChoices |-> FALSE, content |-> << >>]
      [] outcome = "empty" ->
           [raised |-> FALSE, status_code |-> 200, text |-> <<"{choices}">>,
            hasChoices |-> TRUE, content |-> << >>]
      [] OTHER ->
           [raised |-> FALSE, status_code |-> 200, text |-> <<"{choices}">>,
            hasChoices |-> TRUE, content |-> <<"completion of: ">> \o prompt]

FillPrompt(text) ==
    <<"You are an expert form assistant ... --- FORM START ---">> \o text
        \o <<"--- FORM END ---">>

\* Variant of groq_fill_missing that returns the empty string on every failure.
groq_fill_missing_noexcept(text, outcome) ==
    LET response == requests_post(FillPrompt(text), outcome) IN
    IF response.raised
    THEN [raised |-> FALSE, value |-> << >>]
    ELSE IF response.status_code = 200
         THEN IF response.hasChoices
              THEN [raised |-> FALSE, value |-> response.content]
              ELSE [raised |-> FALSE, value |-> << >>]
         ELSE [raised |-> FALSE, value |-> << >>]

\* A result [raised, value]: raised says an exception left the function.
groq_fill_missing(text, outcome) ==
    LET response == requests_post(FillPrompt(text), outcome) IN
    IF response.raised
    THEN [raised |-> FALSE, value |-> <<RequestFailedMarker>> \o response.exc]
    ELSE IF response.status_code = 200
         THEN IF response.hasChoices
              THEN [raised |-> FALSE, value |-> response.content]
              ELSE [raised |-> FALSE, value |-> <<RequestFailedMarker, "'choices'">>]
         ELSE [raised |-> FALSE, value |-> <<ApiErrorMarker>> \o response.text]

AnswerPrompt(text, question) ==
    <<"You are reading an AI-filled scanned form. Form Content:">> \o text
        \o <<"Answer the following question:">> \o question

\* Variant of groq_answer_question whose handler misses the lookup error of a
\* 200 body without choices.
groq_answer_question_uncaught(text, question, outcome) ==
    LET response == requests_post(AnswerPrompt(text, question), outcome) IN
    IF response.raised
    THEN [raised |-> FALSE, value |-> <<RequestFailedMarker>> \o response.exc]
    ELSE IF response.status_code = 200
         THEN IF response.hasChoices
              THEN [raised |-> FALSE, value |-> response.content]
              ELSE [raised |-> TRUE, value |-> << >>]
         ELSE [raised |-> FALSE, value |-> <<ApiErrorMarker>> \o response.text]

groq_answer_question(text, question, outcome) ==
    LET response == requests_post(AnswerPrompt(text, question), outcome) IN
    IF response.raised
    THEN [raised |-> FALSE, value |-> <<RequestFailedMarker>> \o response.exc]
    ELSE IF response.status_code = 200
         THEN IF response.hasChoices
              THEN [raised |-> FALSE, value |-> response.content]
              ELSE [raised |-> FALSE, value |-> <<RequestFailedMarker, "'choices'">>]
         ELSE [raised |-> FALSE, value |-> <<ApiErrorMarker>> \o response.text]

(***************************************************************************)
(* The script.  generate_pdf, which every run with a non-empty filled_text  *)
(* calls for the download button, changes no session state and is modelled *)
(* on its own further down.                                                *)
(***************************************************************************)
Questions == { <<"What is the date?">> }

\* Variant of OcrGuard without the ocr_text test.
OcrGuard_always(up, ocr) == up # NoFile

\* "if uploaded: if not st.session_state.ocr_text:"
OcrGuard(up, ocr) == up # NoFile /\ ~Truthy(ocr)

\* Variant of ShowExtracted that renders the block unconditionally.
ShowExtracted_always(ocr) == TRUE

\* "if st.session_state.ocr_text:" -- the block that holds the Fill button
ShowExtracted(ocr) == Truthy(ocr)

\* "if st.session_state.filled_text:" -- the block that holds the download
\* button and the question box
ShowFilled(filled) == Truthy(filled)

\* Variant of AskContext that reads the text before the Fill handler stored it.
AskContext_stale(before, after) == before

\* The text handed to groq_answer_question is st.session_state.filled_text as
\* read at that line: before is its value when the run began, after its value
\* once the Fill handler above it has run.
AskContext(before, after) == after

\* Variant of AppendEntry that inserts at the front.
AppendEntry_front(history, entry) == <<entry>> \o history

\* st.session_state.qa_history.append(...)
AppendEntry(history, entry) == Append(history, entry)

NoRun == [ocr |-> FALSE, fill |-> FALSE, ask |-> FALSE, exception |-> FALSE,
          fillOutcome |-> "none", askOutcome |-> "none"]

\* One execution of the script, top to bottom, with the widgets holding
\* up (file uploader), fillClicked (Fill button) and typed (question box).
\* The outcome of an HTTP call is chosen when the call is made.
\* An exception leaving a function ends the run where it is raised.
\* Streamlit forgets the value of a widget that a run does not render, so the
\* question box is empty again after a run that skips its block.
Script(up, fillClicked, typed) ==
    LET ocrRun == OcrGuard(up, ocr_text)
        extracted == pdf_to_text(up)
        ocr1 == IF ocrRun THEN extracted.text ELSE ocr_text
        reports == IF ocrRun THEN extracted.errors ELSE 0
        fillRun == ShowExtracted(ocr1) /\ fillClicked
    IN  \E oFill \in IF fillRun THEN HttpOutcomes ELSE {"none"} :
        LET fillRes == groq_fill_missing(ocr1, oFill)
            fillRaised == fillRun /\ fillRes.raised
            filled1 == IF fillRun /\ ~fillRes.raised THEN fillRes.value ELSE filled_text
            shown == ~fillRaised /\ ShowFilled(filled1)
            question == IF shown THEN typed ELSE << >>
            askRun == shown /\ Truthy(question)
        IN  \E oAsk \in IF askRun THEN HttpOutcomes ELSE {"none"} :
            LET askRes == groq_answer_question(AskContext(filled_text, filled1), question, oAsk)
                askRaised == askRun /\ askRes.raised
                history1 == IF askRun /\ ~askRes.raised
                            THEN AppendEntry(qa_history,
                                             [question |-> question, answer |-> askRes.value])
                            ELSE qa_history
            IN  /\ Len(history1) <= MaxHistory
                /\ uploaded' = up
                /\ ocr_text' = ocr1
                /\ filled_text' = filled1
                /\ qa_history' = history1
                /\ qbox' = question
                /\ errorReports' = (IF up # uploaded THEN 0 ELSE errorReports) + reports
                /\ errorReports' <= MaxErrorReports
                /\ run' = [ocr |-> ocrRun, fill |-> fillRun, ask |-> askRun,
                           exception |-> fillRaised \/ askRaised,
                           fillOutcome |-> oFill, askOutcome |-> oAsk]

\* The user picks a file in the uploader (the first one, or another one).
Upload ==
    \E f \in Files :
        /\ f # uploaded
        /\ Script(f, FALSE, qbox)
        /\ UNCHANGED <<asks>>
        /\ UNCHANGED pdfVars

\* The user removes the file from the uploader.
RemoveFile ==
    /\ uploaded # NoFile
    /\ Script(NoFile, FALSE, qbox)
    /\ UNCHANGED <<asks>>
    /\ UNCHANGED pdfVars

\* The page is run again with no widget changed (Rerun in the app menu).
Rerun ==
    /\ Script(uploaded, FALSE, qbox)
    /\ UNCHANGED <<asks>>
    /\ UNCHANGED pdfVars

\* The user clicks "AI Fill Missing Fields"; the button exists when the
\* previous run rendered it.
ClickFill ==
    /\ ShowExtracted(ocr_text)
    /\ Script(uploaded, TRUE, qbox)
    /\ UNCHANGED <<asks>>
    /\ UNCHANGED pdfVars

\* The user clicks "Download AI-Filled PDF".
ClickDownload ==
    /\ ShowFilled(filled_text)
    /\ Script(uploaded, FALSE, qbox)
    /\ UNCHANGED <<asks>>
    /\ UNCHANGED pdfVars

\* The user types a question into the box and presses Enter: an Ask.
SubmitQuestion ==
    \E q \in Questions :
        /\ ShowFilled(filled_text)
        /\ q # qbox
        /\ Script(uploaded, FALSE, q)
        /\ asks' = asks + 1
        /\ UNCHANGED pdfVars

\* The user empties the question box.
ClearQuestion ==
    /\ ShowFilled(filled_text)
    /\ qbox # << >>
    /\ Script(uploaded, FALSE, << >>)
    /\ UNCHANGED <<asks>>
    /\ UNCHANGED pdfVars

(***************************************************************************)
(* generate_pdf.  A string is a sequence of characters here.  The input    *)
(* text is given line by line: RenderLine is one pass of the for loop.     *)
(***************************************************************************)
PageHeight == 792      \* LETTER is 612 x 792 points
TopMargin == 40
TitleGap == 30
LineHeight == 12
BottomMargin == 40
WrapWidth == 110

Letter(i) == <<"a", "b", "c">>[(i % 3) + 1]

\* The line of n characters with blanks at the positions in blanks.
MkLine(n, blanks) == [i \in 1..n |-> IF i \in blanks THEN " " ELSE Letter(i)]

PdfLines ==
    { << >>,                          \* an empty line
      MkLine(3, {}),                  \* a short line
      MkLine(4, {1, 4}),              \* a short line with outer blanks
      MkLine(111, {}),                \* one character more than the width
      MkLine(111, {111}),             \* a blank right after the wrap point
      MkLine(220, {}),                \* twice the width
      MkLine(120, 1..120) }           \* a long line of blanks only

IsSpace(ch) == ch = " "

\* str.strip(): the text from the first to the last non-blank character.
Strip(s) ==
    IF \A i \in 1..Len(s) : IsSpace(s[i]) THEN << >>
    ELSE LET first == CHOOSE i \in 1..Len(s) :
                          ~IsSpace(s[i]) /\ \A j \in 1..(i - 1) : IsSpace(s[j])
             last == CHOOSE i \in 1..Len(s) :
                          ~IsSpace(s[i]) /\ \A j \in (i + 1)..Len(s) : IsSpace(s[j])
         IN  SubSeq(s, first, last)

\* "while len(line) > 110": draw the first 110 characters, keep the rest.
RECURSIVE WrapLoop(_, _, _)
WrapLoop(rest, cursor, segs) ==
    IF Len(rest) > WrapWidth
    THEN WrapLoop(SubSeq(rest, WrapWidth + 1, Len(rest)), cursor - LineHeight,
                  Append(segs, [y |-> cursor, text |-> SubSeq(rest, 1, WrapWidth)]))
    ELSE [rest |-> rest, y |-> cursor, segs |-> segs]

\* One pass of "for line in text.split('\n')", from cursor position cursor.
LoopBody(l, cursor) ==
    IF Strip(l) = << >>
    THEN [y |-> cursor - LineHeight, segs |-> << >>, newPage |-> FALSE]
    ELSE LET w == WrapLoop(l, cursor, << >>)
             segs == Append(w.segs, [y |-> w.y, text |-> Strip(w.rest)])
             after == w.y - LineHeight
         IN  IF after < BottomMargin
             THEN [y |-> PageHeight - TopMargin, segs |-> segs, newPage |-> TRUE]
             ELSE [y |-> after, segs |-> segs, newPage |-> FALSE]

\* Canvas set-up and the title line.
StartPdf ==
    /\ pc = "idle"
    /\ pc' = "lines"
    /\ drawn' = << [y |-> PageHeight - TopMargin, text |-> <<"AI-Filled Form">>] >>
    /\ y' = PageHeight - TopMargin - TitleGap
    /\ UNCHANGED <<pageNo, nLines, line>>
    /\ UNCHANGED sessionVars

RenderLine ==
    \E l \in PdfLines :
        /\ pc = "lines"
        /\ nLines < MaxLines
        /\ LET r == LoopBody(l, y) IN
            /\ y' = r.y
            /\ drawn' = r.segs
            /\ pageNo' = IF r.newPage THEN pageNo + 1 ELSE pageNo
        /\ line' = l
        /\ nLines' = nLines + 1
        /\ UNCHANGED pc
        /\ UNCHANGED sessionVars

\* c.save(); buffer.seek(0); return buffer
SavePdf ==
    /\ pc = "lines"
    /\ pc' = "saved"
    /\ UNCHANGED <<y, pageNo, nLines, line, drawn>>
    /\ UNCHANGED sessionVars

Init ==
    /\ ocr_text = << >>
    /\ filled_text = << >>
    /\ qa_history = << >>
    /\ uploaded = NoFile
    /\ qbox = << >>
    /\ run = NoRun
    /\ asks = 0
    /\ errorReports = 0
    /\ pc = "idle"
    /\ y = 0
    /\ pageNo = 0
    /\ nLines = 0
    /\ line = << >>
    /\ drawn = << >>

Next ==
    \/ Upload
    \/ RemoveFile
    \/ Rerun
    \/ ClickFill
    \/ ClickDownload
    \/ SubmitQuestion
    \/ ClearQuestion

Spec == Init /\ [][Next]_vars

NextPdf ==
    \/ StartPdf
    \/ RenderLine
    \/ SavePdf

SpecPdf == Init /\ [][NextPdf]_vars
(***************************************************************************)
(* Properties                                                              *)
(***************************************************************************)
Last(s) == s[Len(s)]

RECURSIVE Flatten(_)
Flatten(segs) == IF segs = << >> THEN << >> ELSE Head(segs).text \o Flatten(Tail(segs))

CeilDiv(n, d) == (n + d - 1) \div d

\* C1: the length of qa_history equals the number of questions the user has
\* submitted; a run not caused by submitting a question appends nothing.
C1_HistoryLengthIsAskCount ==
    Len(qa_history) = asks

\* C2: groq_fill_missing is invoked only in runs where ocr_text is non-empty,
\* and filled_text is non-empty only if ocr_text is.
C2_FillNeedsDocumentText ==
    /\ run.fill => Truthy(ocr_text)
    /\ Truthy(filled_text) => Truthy(ocr_text)

C2_Witness ==
    /\ run.fill
    /\ Truthy(filled_text)
    /\ Truthy(ocr_text)

\* C3 as stated: no run clears state -- filled_text, once non-empty, stays
\* non-empty whatever a re-triggered Fill returns; ocr_text, once non-empty,
\* stays non-empty; qa_history never shrinks.
C3_NothingCleared ==
    [][ /\ Truthy(filled_text) => Truthy(filled_text')
        /\ Truthy(ocr_text) => Truthy(ocr_text')
        /\ Len(qa_history') >= Len(qa_history) ]_vars

\* C3 amended: filled_text, once non-empty, stays non-empty after every run
\* except one whose Fill gets an empty completion in a 200 response (the
\* error strings are never empty); ocr_text, once non-empty, stays non-empty;
\* qa_history never shrinks.
C3_ClearedOnlyByEmptyCompletion ==
    [][ /\ Truthy(filled_text) /\ ~(run'.fill /\ run'.fillOutcome = "empty")
            => Truthy(filled_text')
        /\ Truthy(ocr_text) => Truthy(ocr_text')
        /\ Len(qa_history') >= Len(qa_history) ]_vars

\* A Fill re-triggered after a question was answered got an HTTP 500.
C3_Witness ==
    /\ run.fill
    /\ run.fillOutcome = "http500"
    /\ Len(qa_history) >= 1
    /\ Truthy(filled_text)

\* C4: pdf_to_text is invoked in a run iff a file is uploaded and ocr_text is
\* empty at that point; once ocr_text is non-empty no run invokes it again or
\* changes ocr_text.
C4_OcrOnlyWhileDocumentTextEmpty ==
    [][ /\ run'.ocr <=> (uploaded' # NoFile /\ ~Truthy(ocr_text))
        /\ Truthy(ocr_text) => (ocr_text' = ocr_text /\ ~run'.ocr) ]_vars

\* Another file was put in the uploader after the OCR of the first one.
C4_Witness ==
    /\ Truthy(ocr_text)
    /\ uploaded = "corrupt"
    /\ ~run.ocr

\* C5: a corrupt PDF yields one error report per upload: while the same file
\* stays in the uploader no later run reports a second error.
C5_OneErrorReportPerUpload ==
    errorReports <= 1

\* C6: every step leaves the old qa_history as a prefix of the new one.
C6_HistoryAppendOnly ==
    [][ IsPrefix(qa_history, qa_history') ]_vars

\* A Fill ran while the history already held entries.
C6_Witness ==
    /\ run.fill
    /\ Len(qa_history) >= 2
    /\ qa_history[1] # qa_history[2]

\* C7: neither client lets an exception out; a non-200 response gives the
\* error marker followed by the response body, a transport exception or a
\* malformed 200 body gives a "Request failed" string, and that string is
\* stored as filled_text, or as the answer of the new entry.
C7_ClientsReturnErrorStrings ==
    /\ ~run.exception
    /\ run.fill /\ run.fillOutcome = "http500"
           => filled_text = <<ApiErrorMarker>> \o Body500
    /\ run.fill /\ run.fillOutcome \in {"refused", "malformed"}
           => Len(filled_text) = 2 /\ Head(filled_text) = RequestFailedMarker
    /\ run.ask => Len(qa_history) >= 1
    /\ run.ask /\ run.askOutcome = "http500"
           => Last(qa_history).answer = <<ApiErrorMarker>> \o Body500
    /\ run.ask /\ run.askOutcome \in {"refused", "malformed"}
           => /\ Len(Last(qa_history).answer) = 2
              /\ Head(Last(qa_history).answer) = RequestFailedMarker

\* A run in which the Fill got an HTTP 500 and the answer a malformed body.
C7_Witness ==
    /\ run.fill /\ run.fillOutcome = "http500"
    /\ run.ask /\ run.askOutcome = "malformed"
    /\ ~run.exception

\* C8: a line longer than 110 characters is drawn as ceil(len/110) segments
\* of at most 110 characters whose concatenation is the line.
C8_WrapKeepsLine ==
    pc = "lines" /\ Len(line) > WrapWidth =>
        /\ Len(drawn) = CeilDiv(Len(line), WrapWidth)
        /\ \A i \in 1..Len(drawn) : Len(drawn[i].text) <= WrapWidth
        /\ Flatten(drawn) = line

\* C9: every segment is drawn at a vertical position of at least 40.
C9_DrawnAboveBottomMargin ==
    \A i \in 1..Len(drawn) : drawn[i].y >= BottomMargin

\* C10: groq_answer_question is invoked only in runs where filled_text and
\* the question are non-empty, and the entry appended is the question with the
\* client's result for the filled_text stored at that moment -- in a run with
\* a Fill, the text that Fill has just stored.
C10_AnswerFromStoredFilledText ==
    run.ask =>
        /\ Truthy(filled_text)
        /\ Truthy(qbox)
        /\ Len(qa_history) >= 1
        /\ Last(qa_history).question = qbox
        /\ Last(qa_history).answer =
               groq_answer_question(filled_text, qbox, run.askOutcome).value

\* A run with both a Fill and an answer, whose Fill replaced a filled_text
\* that an earlier answer was computed from.
C10_Witness ==
    /\ run.fill /\ run.fillOutcome = "http500"
    /\ run.ask /\ run.askOutcome = "ok"
    /\ Len(qa_history) = 2
    /\ qa_history[1].answer # qa_history[2].answer
====
